---- MODULE Spec2Model ----
(***************************************************************************)
(* Layerwise learning for a variational quantum classifier                 *)
(* (Layerwise learning - Image Classification.ipynb).                      *)
(*                                                                         *)
(* The notebook keeps a global parameter store (layer_gates,               *)
(* layer_weights), grows it in Phase I and retrains it by partitions in    *)
(* Phase II.  The quantum simulator, the autodiff engine and the optimizer *)
(* are external: a circuit evaluation is modelled by the list of           *)
(* operations it queues, an optimizer step by an arbitrary new value of    *)
(* the trainable tensor, angles by a small set of abstract values in which *)
(* 0 is the zero initialisation.                                           *)
(***************************************************************************)
EXTENDS Integers, Sequences, FiniteSets, TLC

VARIABLES
    \* configuration scalars of the parameter cells
    n_qubits, n_layer_steps, n_layers_to_add, epochs, n_sweeps,
    NUM_EXAMPLES, batch_size,
    \* the global parameter store
    layer_gates, layer_weights,
    \* globals of the training cells
    new_gates,        \* gate choices of the layers being added (Phase I)
    model,            \* the trainable tensor of the current model
    step,             \* completed Phase I steps
    epoch,            \* completed epochs of the current training
    batch,            \* batches done in the current epoch
    partition_size, sweep, partition,
    part_it,          \* position of the iterator over the partition list [1,2]
    circuit,          \* operations queued by the circuit evaluation in progress
    log,              \* what the Phase II cell has done so far, in order
    pc,
    \* a single call of a utility function, or of a results cell
    args, ret, upc

cfg == <<n_qubits, n_layer_steps, n_layers_to_add, epochs, n_sweeps,
         NUM_EXAMPLES, batch_size>>
store == <<layer_gates, layer_weights>>
train == <<new_gates, model, step, epoch, batch, partition_size, sweep,
           partition, part_it, circuit, log, pc>>
unit == <<args, ret, upc>>
vars == <<cfg, store, train, unit>>

(***************************************************************************)
(* Bounds of the model.                                                    *)
(***************************************************************************)
MaxQubits == 2
MaxLayerSteps == 3
MaxLayersToAdd == 2
MaxStoredAngles == 4      \* n_qubits * n_layer_steps * n_layers_to_add
MaxEpochs == 1
MaxSweeps == 2
MaxExamples == 2
MaxBatchSize == 2
MaxAngle == 1             \* angles are 0..MaxAngle, 0 the zero initialisation
MaxStoreLen == 3          \* layers of a store handed to a utility function
MaxArgLen == 3            \* length of a list handed to apply_layer
MaxLoaderExamples == 5    \* examples behind the loader of a results cell
MaxLoaderBatchSize == 3   \* batch size of that loader
MaxLossExamples == 3      \* NUM_EXAMPLES of a training loop run on its own
MaxLossBatchSize == 2     \* batch_size of that loop
MaxLossEpochs == 2        \* epochs of that loop
MaxLoss == 2              \* finite batch losses are 0..MaxLoss

Angles == 0..MaxAngle

Min(a, b) == IF a < b THEN a ELSE b

(***************************************************************************)
(* Utility functions.                                                      *)
(***************************************************************************)
gate_set == {"RX", "RY", "RZ"}

\* set_random_gates(n): every list random.choice can produce
set_random_gates(n) == [1..n -> gate_set]

\* nn.init.zeros_ on a tensor of shape (rows, cols)
zeros(rows, cols) == [i \in 1..rows |-> [j \in 1..cols |-> 0]]

\* every value a tensor of shape (rows, cols) can take
Tensors(rows, cols) == [1..rows -> [1..cols -> Angles]]

\* Python slices l[:s] and l[s:] for s >= 0
Prefix(l, s) == SubSeq(l, 1, Min(s, Len(l)))
Suffix(l, s) == SubSeq(l, Min(s, Len(l)) + 1, Len(l))

\* a.append(b) in place of a += b: the added list becomes one element
Extend_append(a, b) == Append(a, b)

\* b + a in place of a + b
Extend_prepend(a, b) == b \o a

\* a + b on lists, the effect of  a += b
Extend(a, b) == a \o b

\* NUM_EXAMPLES // batch_size in place of the length of the loader
len_loader_floor(n, bs) == n \div bs

\* len(train_loader): the batches one pass over the loader yields
len_loader(n, bs) == (n + bs - 1) \div bs

(***************************************************************************)
(* Circuits: an operation is a record [gate, wires, params].               *)
(***************************************************************************)
Op(g, w, p) == [gate |-> g, wires |-> w, params |-> p]

\* the first loop of apply_layer, from index i on: gates[i](weights[i], wires=i)
RECURSIVE rotations(_, _, _)
rotations(gates, weights, i) ==
    IF i >= n_qubits THEN [ops |-> <<>>, err |-> "none"]
    ELSE IF i + 1 > Len(gates) \/ i + 1 > Len(weights)
         THEN [ops |-> <<>>, err |-> "IndexError"]
    ELSE LET rest == rotations(gates, weights, i + 1)
         IN  [ops |-> <<Op(gates[i + 1], <<i>>, <<weights[i + 1]>>)>> \o rest.ops,
              err |-> rest.err]

\* the second loop of apply_layer: CZ on (i, i+1)
ladder == [i \in 1..(n_qubits - 1) |-> Op("CZ", <<i - 1, i>>, <<>>)]

apply_layer(gates, weights) ==
    LET r == rotations(gates, weights, 0)
    IN  IF r.err = "none" THEN [ops |-> r.ops \o ladder, err |-> "none"] ELSE r

\* for i in range(n): apply_layer(gates[i], weights[i]), from index i on
RECURSIVE apply_layers(_, _, _, _)
apply_layers(gates, weights, i, n) ==
    IF i >= n THEN [ops |-> <<>>, err |-> "none"]
    ELSE IF i + 1 > Len(gates) \/ i + 1 > Len(weights)
         THEN [ops |-> <<>>, err |-> "IndexError"]
    ELSE LET a == apply_layer(gates[i + 1], weights[i + 1])
         IN  IF a.err # "none" THEN a
             ELSE LET rest == apply_layers(gates, weights, i + 1, n)
                  IN  [ops |-> a.ops \o rest.ops, err |-> rest.err]

apply_frozen_layers(frozen_layer_gates, frozen_layer_weights) ==
    apply_layers(frozen_layer_gates, frozen_layer_weights, 0, Len(frozen_layer_gates))

AngleEmbedding == <<Op("AngleEmbedding", [i \in 1..n_qubits |-> i - 1], <<>>)>>
expval == <<Op("expval PauliZ", <<n_qubits - 1>>, <<>>)>>

\* a qnode body: the embedding, two blocks of layers in this order, the readout;
\* an exception in a block ends the evaluation where it is raised
qnode(first, second) ==
    IF first.err # "none" THEN [ops |-> AngleEmbedding \o first.ops, err |-> first.err]
    ELSE IF second.err # "none"
         THEN [ops |-> AngleEmbedding \o first.ops \o second.ops, err |-> second.err]
    ELSE [ops |-> AngleEmbedding \o first.ops \o second.ops \o expval, err |-> "none"]

quantum_net(new_weights) ==
    qnode(apply_frozen_layers(layer_gates, layer_weights),
          apply_layers(new_gates, new_weights, 0, n_layers_to_add))

(***************************************************************************)
(* Phase II helpers.                                                       *)
(***************************************************************************)
partition_percentage_num == 1
partition_percentage_den == 2

\* int(n_layer_steps*n_layers_to_add*partition_percentage)
partition_size_of(steps, to_add) ==
    (steps * to_add * partition_percentage_num) \div partition_percentage_den

None == "None"

\* the second partition taken from partition_size + 1
get_partition_skip(lw, p, s) ==
    CASE p = 1 -> Prefix(lw, s)
      [] p = 2 -> Suffix(lw, s + 1)
      [] OTHER -> None

get_partition(lw, p, s) ==
    CASE p = 1 -> Prefix(lw, s)
      [] p = 2 -> Suffix(lw, s)
      [] OTHER -> None

\* partition 1 written to the slice of partition 2
save_trained_partition_swapped(lw, trained_weights, p, s) ==
    CASE p = 1 -> Prefix(lw, s) \o trained_weights
      [] p = 2 -> Prefix(lw, s) \o trained_weights
      [] OTHER -> lw

\* both partitions written to the slice of partition 1
save_trained_partition_first(lw, trained_weights, p, s) ==
    CASE p = 1 -> trained_weights \o Suffix(lw, s)
      [] p = 2 -> trained_weights \o Suffix(lw, s)
      [] OTHER -> lw

\* partition 2 written from partition_size - 1
save_trained_partition_early(lw, trained_weights, p, s) ==
    CASE p = 1 -> trained_weights \o Suffix(lw, s)
      [] p = 2 -> Prefix(lw, s - 1) \o trained_weights
      [] OTHER -> lw

\* the second partition never written back
save_trained_partition_only_first(lw, trained_weights, p, s) ==
    CASE p = 1 -> trained_weights \o Suffix(lw, s)
      [] OTHER -> lw

\* the list after the slice assignment (the function mutates it in place)
save_trained_partition(lw, trained_weights, p, s) ==
    CASE p = 1 -> trained_weights \o Suffix(lw, s)
      [] p = 2 -> Prefix(lw, s) \o trained_weights
      [] OTHER -> lw

\* the initial weights never copied in: the tensor stays as TorchLayer made it
edit_model_parameters_keep(old, new_parameters) == old

\* the parameter tensor after copy_: the given initial weights
edit_model_parameters(old, new_parameters) ==
    [i \in 1..Len(old) |-> [j \in 1..Len(old[i]) |-> new_parameters[i][j]]]

\* the trainable second partition applied with the first partition's gates
train_partition_first_gates(partition_weights) ==
    LET g1 == Prefix(layer_gates, partition_size)
        g2 == Suffix(layer_gates, partition_size)
    IN  CASE partition = 1 ->
               qnode(apply_layers(g1, partition_weights, 0, Len(g1)),
                     apply_layers(g2, Suffix(layer_weights, partition_size), 0, Len(g2)))
          [] partition = 2 ->
               qnode(apply_layers(g1, Prefix(layer_weights, partition_size), 0, Len(g1)),
                     apply_layers(g1, partition_weights, 0, Len(g2)))
          [] OTHER -> qnode([ops |-> <<>>, err |-> "none"], [ops |-> <<>>, err |-> "none"])

\* selector 2 applying its trainable block before the frozen first partition
train_partition_trainable_first(partition_weights) ==
    LET g1 == Prefix(layer_gates, partition_size)
        g2 == Suffix(layer_gates, partition_size)
    IN  CASE partition = 1 ->
               qnode(apply_layers(g1, partition_weights, 0, Len(g1)),
                     apply_layers(g2, Suffix(layer_weights, partition_size), 0, Len(g2)))
          [] partition = 2 ->
               qnode(apply_layers(g2, partition_weights, 0, Len(g2)),
                     apply_layers(g1, Prefix(layer_weights, partition_size), 0, Len(g1)))
          [] OTHER -> qnode([ops |-> <<>>, err |-> "none"], [ops |-> <<>>, err |-> "none"])

train_partition(partition_weights) ==
    LET g1 == Prefix(layer_gates, partition_size)
        g2 == Suffix(layer_gates, partition_size)
    IN  CASE partition = 1 ->
               qnode(apply_layers(g1, partition_weights, 0, Len(g1)),
                     apply_layers(g2, Suffix(layer_weights, partition_size), 0, Len(g2)))
          [] partition = 2 ->
               qnode(apply_layers(g1, Prefix(layer_weights, partition_size), 0, Len(g1)),
                     apply_layers(g2, partition_weights, 0, Len(g2)))
          [] OTHER -> qnode([ops |-> <<>>, err |-> "none"], [ops |-> <<>>, err |-> "none"])

\* the partition list in the other order
partitions_reversed == <<2, 1>>

\* for partition in [1,2]
partitions == <<1, 2>>

(***************************************************************************)
(* The notebook run: Phase I, then Phase II.                               *)
(***************************************************************************)
NoUnit == /\ args = <<>>
          /\ ret = <<>>
          /\ upc = "idle"

Init ==
    /\ n_qubits \in 1..MaxQubits
    /\ n_layer_steps \in 1..MaxLayerSteps
    /\ n_layers_to_add \in 1..MaxLayersToAdd
    /\ n_qubits * n_layer_steps * n_layers_to_add <= MaxStoredAngles
    \* Phase II needs a first partition to train
    /\ partition_size_of(n_layer_steps, n_layers_to_add) >= 1
    /\ epochs \in 1..MaxEpochs
    /\ n_sweeps \in 1..MaxSweeps
    /\ NUM_EXAMPLES \in 1..MaxExamples
    /\ batch_size \in 1..MaxBatchSize
    /\ layer_gates = <<>>
    /\ layer_weights = <<>>
    /\ new_gates = <<>>
    /\ model = <<>>
    /\ step = 0
    /\ epoch = 0
    /\ batch = 0
    /\ partition_size = 0
    /\ sweep = 0
    /\ partition = 0
    /\ part_it = 0
    /\ circuit = <<>>
    /\ log = <<>>
    /\ pc = "PhaseI"
    /\ NoUnit

\* for step in range(n_layer_steps): new gates, a zero-initialised TorchLayer
PhaseI_NewStep ==
    /\ pc = "PhaseI"
    /\ step < n_layer_steps
    /\ new_gates' \in [1..n_layers_to_add -> set_random_gates(n_qubits)]
    /\ model' = zeros(n_layers_to_add, n_qubits)
    /\ epoch' = 0
    /\ batch' = 0
    /\ pc' = "PhaseI_batch"
    /\ UNCHANGED <<cfg, store, step, partition_size, sweep, partition, part_it,
                   circuit, log, unit>>

\* loss(model(x), y): the forward pass queues the circuit
PhaseI_Forward ==
    /\ pc = "PhaseI_batch"
    /\ epoch < epochs
    /\ batch < len_loader(NUM_EXAMPLES, batch_size)
    /\ LET c == quantum_net(model)
       IN  /\ circuit' = c.ops
           /\ pc' = IF c.err = "none" THEN "PhaseI_opt" ELSE "Failed"
    /\ UNCHANGED <<cfg, store, new_gates, model, step, epoch, batch, partition_size,
                   sweep, partition, part_it, log, unit>>

\* backward and opt.step(): only model.parameters() are handed to the optimizer
PhaseI_OptStep ==
    /\ pc = "PhaseI_opt"
    /\ model' \in Tensors(Len(model), n_qubits)
    /\ batch' = batch + 1
    /\ circuit' = <<>>
    /\ pc' = "PhaseI_batch"
    /\ UNCHANGED <<cfg, store, new_gates, step, epoch, partition_size, sweep,
                   partition, part_it, log, unit>>

PhaseI_EpochEnd ==
    /\ pc = "PhaseI_batch"
    /\ epoch < epochs
    /\ batch = len_loader(NUM_EXAMPLES, batch_size)
    /\ epoch' = epoch + 1
    /\ batch' = 0
    /\ UNCHANGED <<cfg, store, new_gates, model, step, partition_size, sweep,
                   partition, part_it, circuit, log, pc, unit>>

\* layer_gates += new_gates; layer_weights += new_weights
PhaseI_Append ==
    /\ pc = "PhaseI_batch"
    /\ epoch = epochs
    /\ layer_gates' = Extend(layer_gates, new_gates)
    /\ layer_weights' = Extend(layer_weights, model)
    /\ step' = step + 1
    /\ pc' = "PhaseI"
    /\ UNCHANGED <<cfg, new_gates, model, epoch, batch, partition_size, sweep,
                   partition, part_it, circuit, log, unit>>

\* the cell that sets partition_size, then the head of the sweep loop
PhaseI_End ==
    /\ pc = "PhaseI"
    /\ step = n_layer_steps
    /\ partition_size' = partition_size_of(n_layer_steps, n_layers_to_add)
    /\ sweep' = 0
    /\ part_it' = 0
    /\ pc' = IF n_sweeps > 0 THEN "PhaseII" ELSE "Done"
    /\ UNCHANGED <<cfg, store, new_gates, model, step, epoch, batch, partition,
                   circuit, log, unit>>

\* for partition in [1,2]: get_partition, TorchLayer, edit_model_parameters
PhaseII_Begin ==
    /\ pc = "PhaseII"
    /\ part_it < Len(partitions)
    /\ partition' = partitions[part_it + 1]
    /\ part_it' = part_it + 1
    /\ LET trainable_weights == get_partition(layer_weights, partition', partition_size)
       IN  model' = edit_model_parameters(zeros(Len(trainable_weights), n_qubits),
                                          trainable_weights)
    /\ log' = Append(log, <<"train", sweep + 1, partition'>>)
    /\ epoch' = 0
    /\ batch' = 0
    /\ pc' = "PhaseII_batch"
    /\ UNCHANGED <<cfg, store, new_gates, step, partition_size, sweep, circuit, unit>>

PhaseII_Forward ==
    /\ pc = "PhaseII_batch"
    /\ epoch < epochs
    /\ batch < len_loader(NUM_EXAMPLES, batch_size)
    /\ LET c == train_partition(model)
       IN  /\ circuit' = c.ops
           /\ pc' = IF c.err = "none" THEN "PhaseII_opt" ELSE "Failed"
    /\ UNCHANGED <<cfg, store, new_gates, model, step, epoch, batch, partition_size,
                   sweep, partition, part_it, log, unit>>

PhaseII_OptStep ==
    /\ pc = "PhaseII_opt"
    /\ model' \in Tensors(Len(model), n_qubits)
    /\ batch' = batch + 1
    /\ circuit' = <<>>
    /\ pc' = "PhaseII_batch"
    /\ UNCHANGED <<cfg, store, new_gates, step, epoch, partition_size, sweep,
                   partition, part_it, log, unit>>

PhaseII_EpochEnd ==
    /\ pc = "PhaseII_batch"
    /\ epoch < epochs
    /\ batch = len_loader(NUM_EXAMPLES, batch_size)
    /\ epoch' = epoch + 1
    /\ batch' = 0
    /\ UNCHANGED <<cfg, store, new_gates, model, step, partition_size, sweep,
                   partition, part_it, circuit, log, pc, unit>>

\* trained_weights = param.data.tolist(); save_trained_partition(...)
PhaseII_Save ==
    /\ pc = "PhaseII_batch"
    /\ epoch = epochs
    /\ layer_weights' = save_trained_partition(layer_weights, model, partition,
                                               partition_size)
    /\ log' = Append(log, <<"save", sweep + 1, partition>>)
    /\ pc' = "PhaseII"
    /\ UNCHANGED <<cfg, layer_gates, new_gates, model, step, epoch, batch,
                   partition_size, sweep, partition, part_it, circuit, unit>>

\* the partition list is exhausted: next sweep, or the end of the cell
PhaseII_NextSweep ==
    /\ pc = "PhaseII"
    /\ part_it = Len(partitions)
    /\ sweep' = sweep + 1
    /\ IF sweep + 1 < n_sweeps
       THEN /\ part_it' = 0
            /\ pc' = "PhaseII"
       ELSE /\ part_it' = part_it
            /\ pc' = "Done"
    /\ UNCHANGED <<cfg, store, new_gates, model, step, epoch, batch, partition_size,
                   partition, circuit, log, unit>>

\* the accuracy cells: probs = model(x) with the model the sweep loop left behind
Results_Forward ==
    /\ pc = "Done"
    /\ LET c == train_partition(model)
       IN  /\ circuit' = c.ops
           /\ pc' = IF c.err = "none" THEN "Results" ELSE "Failed"
    /\ UNCHANGED <<cfg, store, new_gates, model, step, epoch, batch, partition_size,
                   sweep, partition, part_it, log, unit>>

Next ==
    \/ PhaseI_NewStep
    \/ PhaseI_Forward
    \/ PhaseI_OptStep
    \/ PhaseI_EpochEnd
    \/ PhaseI_Append
    \/ PhaseI_End
    \/ PhaseII_Begin
    \/ PhaseII_Forward
    \/ PhaseII_OptStep
    \/ PhaseII_EpochEnd
    \/ PhaseII_Save
    \/ PhaseII_NextSweep
    \/ Results_Forward

Spec == Init /\ [][Next]_vars

(***************************************************************************)
(* Phase I claims.                                                         *)
(***************************************************************************)
PhaseI_pcs == {"PhaseI", "PhaseI_batch", "PhaseI_opt"}
PhaseII_pcs == {"PhaseII", "PhaseII_batch", "PhaseII_opt"}

Rows(t, n) == \A i \in 1..Len(t) : Len(t[i]) = n

\* C1: after k completed Phase I steps the store holds exactly
\* k * n_layers_to_add layers, in layer_gates and in layer_weights, and every
\* layer holds n_qubits gate choices and n_qubits angles.
C1_StoreGrowsByStep ==
    pc \in PhaseI_pcs =>
        /\ step \in 0..n_layer_steps
        /\ Len(layer_gates) = step * n_layers_to_add
        /\ Len(layer_weights) = step * n_layers_to_add
        /\ Rows(layer_gates, n_qubits)
        /\ Rows(layer_weights, n_qubits)

C1_Witness ==
    /\ pc = "PhaseI"
    /\ step = 2
    /\ n_layers_to_add = 2
    /\ Len(layer_weights) = 4
    /\ layer_weights[3] # layer_weights[1]

\* what a step of the Phase I cell may do to the store
C2_Step ==
    pc \in PhaseI_pcs =>
        /\ Len(layer_gates') = Len(layer_gates) + (step' - step) * n_layers_to_add
        /\ Len(layer_weights') = Len(layer_weights) + (step' - step) * n_layers_to_add
        /\ \A i \in 1..Len(layer_gates) : layer_gates'[i] = layer_gates[i]
        /\ \A i \in 1..Len(layer_weights) : layer_weights'[i] = layer_weights[i]
        /\ pc # "PhaseI_batch" \/ epoch < epochs => step' = step
        /\ pc = "PhaseI_batch" /\ epoch = epochs => step' = step + 1

\* C2: a Phase I step leaves every layer already in the store unchanged, during
\* its training and after it, and appends exactly n_layers_to_add layers at the
\* end of the store when it completes.
C2_PhaseIStepFrame == [][C2_Step]_vars

C2_Witness ==
    /\ pc = "PhaseI"
    /\ step = 2
    /\ n_qubits = 2
    /\ layer_weights[1] = <<1, 0>>
    /\ layer_weights[2] = <<0, 1>>
    /\ layer_gates[1] # layer_gates[2]

(***************************************************************************)
(* Phase II claims.                                                        *)
(***************************************************************************)
\* the stored angles outside partition p
Other(lw, p) == IF p = 1 THEN Suffix(lw, partition_size) ELSE Prefix(lw, partition_size)

\* what a step of the Phase II cell may do to the stored angles
C5_Step ==
    pc \in PhaseII_pcs =>
        /\ Len(layer_weights') = Len(layer_weights)
        /\ pc = "PhaseII" => layer_weights' = layer_weights
        /\ pc # "PhaseII" => Other(layer_weights', partition) = Other(layer_weights, partition)

\* C5: training partition p and writing it back changes only the stored angles
\* of p's index range; the other partition's stored angles are the same before,
\* during and after the partition-training.
C5_OtherPartitionUntouched == [][C5_Step]_vars

C5_Witness ==
    /\ pc = "PhaseII"
    /\ sweep = 1
    /\ partition = 1
    /\ Len(layer_weights) = 3
    /\ partition_size = 1
    /\ layer_weights = <<<<1>>, <<0>>, <<1>>>>
    /\ model = <<<<1>>>>

\* what the Phase II cell does for n sweeps: train and write back (1, 1), (1, 2),
\* (2, 1), ...
Schedule(n) ==
    [k \in 1..(4 * n) |->
        <<IF k % 2 = 1 THEN "train" ELSE "save",
          ((k - 1) \div 4) + 1,
          (((k - 1) \div 2) % 2) + 1>>]

\* C6: Phase II trains (sweep 1, partition 1), (sweep 1, partition 2), (sweep 2,
\* partition 1), ..., each followed by one write-back of that partition before
\* the next training starts, and is Done after exactly n_sweeps * 2 trainings.
C6_SweepOrder ==
    /\ Len(log) <= 4 * n_sweeps
    /\ log = SubSeq(Schedule(n_sweeps), 1, Len(log))
    /\ pc \in {"PhaseII_batch", "PhaseII_opt", "Failed"} /\ Len(log) > 0 =>
           log[Len(log)] = <<"train", sweep + 1, partition>>
    /\ pc \in {"PhaseII_batch", "PhaseII_opt"} => Len(log) % 2 = 1
    /\ pc = "PhaseII" => Len(log) % 2 = 0
    /\ pc = "Done" => log = Schedule(n_sweeps)
    /\ pc \in PhaseI_pcs => log = <<>>

C6_Witness ==
    /\ pc = "Done"
    /\ n_sweeps = 2
    /\ Len(log) = 8
    /\ log[5] = <<"train", 2, 1>>
    /\ log[8] = <<"save", 2, 2>>

RECURSIVE Flatten(_)
Flatten(ll) == IF ll = <<>> THEN <<>> ELSE Head(ll) \o Flatten(Tail(ll))

IsRotation(o) == o.gate \in gate_set

\* the rotation generators a circuit applies, in order
RotationsOf(c) == LET r == SelectSeq(c, IsRotation) IN [i \in 1..Len(r) |-> r[i].gate]

\* what a step of the run may do to the gate choices
C7_Step ==
    /\ Len(layer_gates') >= Len(layer_gates)
    /\ \A i \in 1..Len(layer_gates) : layer_gates'[i] = layer_gates[i]
    /\ pc \in PhaseII_pcs => layer_gates' = layer_gates /\ new_gates' = new_gates
    /\ pc' = "PhaseII_opt" => RotationsOf(circuit') = Flatten(layer_gates)

\* C7: a stored gate choice never changes in a later Phase I step or in Phase II,
\* Phase II draws no gate choices, and every Phase II circuit applies exactly
\* the stored gate choices.
C7_GatesImmutable == [][C7_Step]_vars

C7_Witness ==
    /\ pc = "PhaseII_opt"
    /\ sweep = 1
    /\ partition = 2
    /\ Len(layer_gates) = 2
    /\ RotationsOf(circuit) = <<"RX", "RY", "RZ", "RX">>

\* C8: in every state of Phase II the store has the length it had at the end of
\* Phase I, layer_weights and layer_gates hold the same number of layers, and
\* every layer holds n_qubits angles.
C8_PhaseIIStoreShape ==
    pc \in PhaseII_pcs \cup {"Done"} =>
        /\ Len(layer_weights) = n_layer_steps * n_layers_to_add
        /\ Len(layer_gates) = Len(layer_weights)
        /\ Rows(layer_weights, n_qubits)

C8_Witness ==
    /\ pc = "Done"
    /\ n_sweeps = 2
    /\ n_qubits = 2
    /\ Len(layer_weights) = 2
    /\ layer_weights = <<<<1, 1>>, <<0, 1>>>>

\* C11: at the start of every Phase II partition-training the trainable block
\* handed to the optimizer is what the store holds for that partition at that
\* moment, earlier write-backs included, not the zero initialisation.
C11_SeededFromStore ==
    pc = "PhaseII_batch" /\ epoch = 0 /\ batch = 0 =>
        model = get_partition(layer_weights, partition, partition_size)

C11_Witness ==
    /\ pc = "PhaseII_batch"
    /\ epoch = 0
    /\ batch = 0
    /\ sweep = 1
    /\ partition = 1
    /\ n_qubits = 2
    /\ model = <<<<1, 0>>>>
    /\ layer_weights = <<<<1, 0>>, <<1, 1>>>>

\* layer i (from 1) lies in partition p
InPartition(i, p) == IF p = 1 THEN i <= partition_size ELSE i > partition_size

\* no stored angle changes in this step
C14_Frozen_Step ==
    \A i \in 1..Len(layer_weights) :
        i <= Len(layer_weights') /\ layer_weights'[i] = layer_weights[i]

\* C14: as claimed, once the Phase I step or Phase II partition-training that
\* trained an angle has finished, its stored value is never changed again.
C14_FrozenForever == [][C14_Frozen_Step]_vars

\* a stored angle changes only in the write-back of its own partition
C14_Step ==
    /\ \A i \in 1..Len(layer_weights) :
           /\ i <= Len(layer_weights')
           /\ layer_weights'[i] # layer_weights[i] =>
                  /\ pc = "PhaseII_batch"
                  /\ epoch = epochs
                  /\ InPartition(i, partition)
    /\ pc \in PhaseI_pcs \cup {"Done", "Results"} => C14_Frozen_Step

\* C14: amended, a stored angle is never changed during Phase I nor after Phase
\* II is Done; in Phase II it changes only in the write-back of a training of
\* the partition that holds its layer, in every sweep again.
C14_ChangedOnlyByOwnWriteBack == [][C14_Step]_vars

C14_Witness ==
    /\ pc = "PhaseII_batch"
    /\ epoch = epochs
    /\ sweep = 1
    /\ partition = 1
    /\ Len(log) = 5
    /\ layer_weights = <<<<1>>, <<0>>, <<1>>>>
    /\ model = <<<<0>>>>

\* operations of one layer: n_qubits rotations, then n_qubits - 1 CZ
LayerLen == 2 * n_qubits - 1

\* operation k (from 1) of the layers given by gates and weights, in list order
LayerOp(gates, weights, k) ==
    LET l == ((k - 1) \div LayerLen) + 1
        j == (k - 1) % LayerLen
    IN  IF j < n_qubits
        THEN Op(gates[l][j + 1], <<j>>, <<weights[l][j + 1]>>)
        ELSE Op("CZ", <<j - n_qubits, j - n_qubits + 1>>, <<>>)

\* the encoding, the layers in list order, the readout of the last qubit
StoreOrderCircuit(gates, weights) ==
    <<Op("AngleEmbedding", [i \in 1..n_qubits |-> i - 1], <<>>)>>
    \o [k \in 1..(Len(gates) * LayerLen) |-> LayerOp(gates, weights, k)]
    \o <<Op("expval PauliZ", <<n_qubits - 1>>, <<>>)>>

\* the angles a Phase II circuit is meant to use, in store order
PartitionedAngles ==
    IF partition = 1 THEN model \o Suffix(layer_weights, partition_size)
    ELSE Prefix(layer_weights, partition_size) \o model

\* C15: every circuit evaluation applies the data encoding, then the layers in
\* increasing store index (Phase I: the stored layers, then the new ones; Phase
\* II: the first partition_size layers, then the rest, for both selectors),
\* each layer as n_qubits rotations followed by CZ on (i, i+1), then the readout
\* of the last qubit.
C15_StoreOrder ==
    /\ pc = "PhaseI_opt" =>
           circuit = StoreOrderCircuit(layer_gates \o new_gates, layer_weights \o model)
    /\ pc \in {"PhaseII_opt", "Results"} =>
           circuit = StoreOrderCircuit(layer_gates, PartitionedAngles)

C15_Witness ==
    /\ pc = "PhaseII_opt"
    /\ partition = 2
    /\ n_qubits = 2
    /\ Len(layer_gates) = 2
    /\ layer_gates[1] # layer_gates[2]
    /\ Len(circuit) = 8
    /\ circuit[2] = Op(layer_gates[1][1], <<0>>, <<layer_weights[1][1]>>)
    /\ circuit[4] = Op("CZ", <<0, 1>>, <<>>)
    /\ circuit[6] = Op(layer_gates[2][2], <<1>>, <<model[1][2]>>)
    /\ model[1] # layer_weights[2]
    /\ circuit[8].wires = <<1>>

\* C16: once Phase II is Done the model the accuracy cells evaluate is the
\* selector 2 model, its trainable block is the second partition of the final
\* store, and its circuit applies exactly the gate choices and angles of the
\* final store.
C16_FinalModelIsStore ==
    /\ pc \in {"Done", "Results"} =>
           /\ partition = 2
           /\ model = Suffix(layer_weights, partition_size)
    /\ pc = "Results" => circuit = StoreOrderCircuit(layer_gates, layer_weights)

C16_Witness ==
    /\ pc = "Results"
    /\ n_sweeps = 2
    /\ n_qubits = 1
    /\ layer_weights = <<<<0>>, <<1>>, <<1>>>>
    /\ model = <<<<1>>, <<1>>>>
    /\ Len(circuit) = 5
    /\ circuit[3].params = <<1>>

(***************************************************************************)
(* The utility functions and the results cells, called on their own.  Only *)
(* args, ret and upc (and the scalars a function reads) are used.          *)
(***************************************************************************)
NoRun ==
    /\ layer_gates = <<>>
    /\ layer_weights = <<>>
    /\ new_gates = <<>>
    /\ model = <<>>
    /\ step = 0
    /\ epoch = 0
    /\ batch = 0
    /\ partition_size = 0
    /\ sweep = 0
    /\ partition = 0
    /\ part_it = 0
    /\ circuit = <<>>
    /\ log = <<>>
    /\ pc = "idle"

NoScalars ==
    /\ n_layer_steps = 0
    /\ n_layers_to_add = 0
    /\ epochs = 0
    /\ n_sweeps = 0
    /\ NUM_EXAMPLES = 0
    /\ batch_size = 0

\* lists of at most n elements of S
SeqsUpTo(S, n) == UNION {[1..k -> S] : k \in 0..n}

\* ---- get_partition and save_trained_partition
InitPartition ==
    /\ n_qubits = 1
    /\ NoScalars
    /\ NoRun
    /\ args \in [layer_weights : SeqsUpTo([1..n_qubits -> Angles], MaxStoreLen),
                 trained_weights : SeqsUpTo([1..n_qubits -> Angles], MaxStoreLen),
                 partition : {1, 2},
                 partition_size : 0..MaxStoreLen]
    /\ args.partition_size <= Len(args.layer_weights)
    /\ ret = <<>>
    /\ upc = "call"

\* both partitions of the same list at the same split point
CallGetPartition ==
    /\ upc = "call"
    /\ ret' = [first |-> get_partition(args.layer_weights, 1, args.partition_size),
               second |-> get_partition(args.layer_weights, 2, args.partition_size)]
    /\ upc' = "got"
    /\ UNCHANGED <<cfg, store, train, args>>

\* save_trained_partition, then get_partition of the list it changed
CallSaveThenGet ==
    /\ upc = "call"
    /\ LET saved == save_trained_partition(args.layer_weights, args.trained_weights,
                                           args.partition, args.partition_size)
       IN  ret' = [layer_weights |-> saved,
                   got |-> get_partition(saved, args.partition, args.partition_size)]
    /\ upc' = "saved"
    /\ UNCHANGED <<cfg, store, train, args>>

NextPartition ==
    \/ CallGetPartition
    \/ CallSaveThenGet

SpecPartition == InitPartition /\ [][NextPartition]_vars

\* C3: for every store and every split point s in 0..len(store),
\* get_partition(store, 1, s) followed by get_partition(store, 2, s) is the
\* store: the partitions are disjoint and cover every layer once, in order.
C3_PartitionsCoverStore ==
    upc = "got" =>
        /\ ret.first \o ret.second = args.layer_weights
        /\ Len(ret.first) = args.partition_size
        /\ Len(ret.second) = Len(args.layer_weights) - args.partition_size

C3_Witness ==
    /\ upc = "got"
    /\ args.partition_size = 1
    /\ Len(args.layer_weights) = 3
    /\ ret.first = <<<<1>>>>
    /\ ret.second = <<<<0>>, <<1>>>>

\* C4: as claimed, for p in {1, 2}, every split point s and any list w,
\* save_trained_partition(store, w, p, s) then get_partition(store, p, s) is w.
C4_RoundTripAnyList ==
    upc = "saved" => ret.got = args.trained_weights

\* when the round trip gives back w
C4_Fits ==
    \/ args.partition = 2
    \/ Len(args.trained_weights) = args.partition_size
    \/ /\ Len(args.trained_weights) < args.partition_size
       /\ args.partition_size = Len(args.layer_weights)

\* C4: amended, the round trip returns w for p = 2 and any w, and for p = 1
\* exactly when w holds s layers, or fewer than s layers with s the length of
\* the store.
C4_RoundTrip ==
    upc = "saved" => (ret.got = args.trained_weights <=> C4_Fits)

C4_Witness ==
    /\ upc = "saved"
    /\ args.partition = 1
    /\ args.partition_size = 2
    /\ Len(args.layer_weights) = 3
    /\ args.trained_weights = <<<<1>>, <<0>>>>
    /\ ret.got = <<<<1>>, <<0>>>>
    /\ ret.layer_weights = <<<<1>>, <<0>>, <<1>>>>

\* ---- apply_layer
InitApply ==
    /\ n_qubits \in 1..MaxQubits
    /\ NoScalars
    /\ NoRun
    /\ args \in [gates : SeqsUpTo(gate_set, MaxArgLen),
                 weights : SeqsUpTo(Angles, MaxArgLen)]
    /\ ret = <<>>
    /\ upc = "call"

CallApplyLayer ==
    /\ upc = "call"
    /\ ret' = apply_layer(args.gates, args.weights)
    /\ upc' = "returned"
    /\ UNCHANGED <<cfg, store, train, args>>

SpecApply == InitApply /\ [][CallApplyLayer]_vars

\* C9: apply_layer rejects every call whose gate-choice list and angle list
\* differ in length, with a failure and without applying any gate.
C9_RejectsMismatch ==
    upc = "returned" /\ Len(args.gates) # Len(args.weights) =>
        /\ ret.err # "none"
        /\ ret.ops = <<>>

\* ---- the accuracy cells
InitAccuracy ==
    /\ n_qubits = 0
    /\ NoScalars
    /\ NoRun
    /\ args \in [examples : 1..MaxLoaderExamples, batch_size : 1..MaxLoaderBatchSize]
    /\ ret = [accuracy |-> <<0, 1>>, seen |-> 0, correct |-> 0, batches |-> 0]
    /\ upc = "loop"

\* fractions <<numerator, denominator>>
FracAdd(a, b) == <<a[1] * b[2] + b[1] * a[2], a[2] * b[2]>>
FracDiv(a, k) == <<a[1], a[2] * k>>

\* one batch: accuracy += torch.sum(preds == y).item()/preds.shape[0]
AccuracyBatch ==
    /\ upc = "loop"
    /\ ret.seen < args.examples
    /\ LET shape == Min(args.batch_size, args.examples - ret.seen)
       IN  \E preds \in [1..shape -> {0, 1}], y \in [1..shape -> {0, 1}] :
               LET right == Cardinality({i \in 1..shape : preds[i] = y[i]})
               IN  ret' = [accuracy |-> FracAdd(ret.accuracy, <<right, shape>>),
                           seen |-> ret.seen + shape,
                           correct |-> ret.correct + right,
                           batches |-> ret.batches + 1]
    /\ UNCHANGED <<cfg, store, train, args, upc>>

\* print(accuracy/len(loader))
AccuracyReport ==
    /\ upc = "loop"
    /\ ret.seen = args.examples
    /\ ret' = [ret EXCEPT !.accuracy =
                   FracDiv(ret.accuracy, len_loader(args.examples, args.batch_size))]
    /\ upc' = "reported"
    /\ UNCHANGED <<cfg, store, train, args>>

NextAccuracy ==
    \/ AccuracyBatch
    \/ AccuracyReport

SpecAccuracy == InitAccuracy /\ [][NextAccuracy]_vars

\* C10: the reported accuracy is 1 when every prediction equals its label and 0
\* when every prediction is wrong, for every number of batches and batch size.
C10_AccuracyExtremes ==
    upc = "reported" =>
        /\ ret.accuracy[2] # 0
        /\ ret.correct = args.examples => ret.accuracy[1] = ret.accuracy[2]
        /\ ret.correct = 0 => ret.accuracy[1] = 0

C10_Witness ==
    /\ upc = "reported"
    /\ args.examples = 3
    /\ args.batch_size = 2
    /\ ret.batches = 2
    /\ ret.correct = 3
    /\ ret.accuracy[1] = ret.accuracy[2]

\* ---- the training loop of both trainers: epochs, batches, running loss
\* batches = NUM_EXAMPLES // batch_size
batches(n, bs) == n \div bs

\* ret holds the loop's variables (epoch, batch, running_loss, avg_loss; finite
\* tells whether running_loss is a finite number) and a record of what the loop
\* did: the sum and batch count behind the last average, whether a batch loss
\* was non-finite (bad), the batches run after it, whether an average held it,
\* and whether the trained layers reached the store.
InitLoss ==
    /\ n_qubits = 0
    /\ NoScalars
    /\ NoRun
    /\ args \in [NUM_EXAMPLES : 1..MaxLossExamples,
                 batch_size : 1..MaxLossBatchSize,
                 epochs : 1..MaxLossEpochs]
    /\ ret = [epoch |-> 0, batch |-> 0, running_loss |-> 0, finite |-> TRUE,
              avg_loss |-> <<0, 1>>, avg_finite |-> TRUE,
              avg_sum |-> 0, avg_iterated |-> 0,
              bad |-> FALSE, after_bad |-> 0, avg_with_bad |-> FALSE,
              stored |-> FALSE]
    /\ upc = "train"

\* one batch with a finite loss: running_loss += loss_evaluated; opt.step()
LossBatch ==
    /\ upc = "train"
    /\ ret.epoch < args.epochs
    /\ ret.batch < len_loader(args.NUM_EXAMPLES, args.batch_size)
    /\ \E loss_evaluated \in 0..MaxLoss :
           ret' = [ret EXCEPT !.batch = @ + 1,
                              !.running_loss = @ + loss_evaluated,
                              !.after_bad = IF ret.bad THEN @ + 1 ELSE @]
    /\ UNCHANGED <<cfg, store, train, args, upc>>

\* one batch whose loss is not finite: the sum is not finite from here on
LossBatchNonFinite ==
    /\ upc = "train"
    /\ ret.epoch < args.epochs
    /\ ret.batch < len_loader(args.NUM_EXAMPLES, args.batch_size)
    /\ ret' = [ret EXCEPT !.batch = @ + 1,
                          !.finite = FALSE,
                          !.bad = TRUE,
                          !.after_bad = IF ret.bad THEN @ + 1 ELSE @]
    /\ UNCHANGED <<cfg, store, train, args, upc>>

\* avg_loss = running_loss / batches, printed; the next epoch starts from 0
LossEpochEnd ==
    /\ upc = "train"
    /\ ret.epoch < args.epochs
    /\ ret.batch = len_loader(args.NUM_EXAMPLES, args.batch_size)
    /\ ret' = [ret EXCEPT !.avg_loss = FracDiv(<<ret.running_loss, 1>>,
                                               batches(args.NUM_EXAMPLES, args.batch_size)),
                          !.avg_finite = ret.finite,
                          !.avg_sum = ret.running_loss,
                          !.avg_iterated = ret.batch,
                          !.avg_with_bad = @ \/ ~ret.finite,
                          !.epoch = @ + 1,
                          !.batch = 0,
                          !.running_loss = 0,
                          !.finite = TRUE]
    /\ UNCHANGED <<cfg, store, train, args, upc>>

\* after the last epoch: the trained layers are appended or written back
LossStore ==
    /\ upc = "train"
    /\ ret.epoch = args.epochs
    /\ ret' = [ret EXCEPT !.stored = TRUE]
    /\ upc' = "stored"
    /\ UNCHANGED <<cfg, store, train, args>>

NextLoss ==
    \/ LossBatch
    \/ LossBatchNonFinite
    \/ LossEpochEnd
    \/ LossStore

SpecLoss == InitLoss /\ [][NextLoss]_vars

\* C12: the average loss of an epoch is the sum of its batch losses divided by
\* the number of batches iterated in it, for every NUM_EXAMPLES and batch_size.
C12_AverageOverIteratedBatches ==
    ret.avg_iterated > 0 /\ ret.avg_finite =>
        /\ ret.avg_loss[2] # 0
        /\ ret.avg_loss[1] * ret.avg_iterated = ret.avg_sum * ret.avg_loss[2]

\* C13: a non-finite batch loss aborts the training step: no further batch is
\* processed, no average holding that loss is reported, and the layers of the
\* step do not reach the store.
C13_NonFiniteAborts ==
    ret.bad =>
        /\ ret.after_bad = 0
        /\ ~ret.avg_with_bad
        /\ ~ret.stored

====
